---- MODULE Spec2Model ----
(***************************************************************************)
(* Model of scripts/generate-sitemap.mjs: the build-time script that       *)
(* resolves the CMS configuration, pages through the CMS blog listing,     *)
(* builds sitemap.xml and robots.txt and writes them to ./dist.            *)
(*                                                                         *)
(* JavaScript strings are sequences of one-character strings, so that      *)
(* escaping, percent-encoding and trailing-slash stripping are computed    *)
(* character by character as the code does.  JavaScript values are tagged  *)
(* records: undefined, null, a string, a number or an object (a function   *)
(* from property names to values).                                         *)
(***************************************************************************)
EXTENDS Integers, Sequences, FiniteSets, TLC

VARIABLES
  pc,          \* position of main(), or of the function a specification applies
  exitCode,    \* process exit status, -1 while the process runs
  console,     \* what console.log / console.warn / console.error printed
  env,         \* process.env
  remoteCfg,   \* result of fetchRemoteConfigByHttp (Pending until it resolves)
  localCfg,    \* result of readLocalPublicConfig (Pending until it resolves)
  strapiUrl,   \* resolved by pickStrapiConfig
  siteSlug,    \* resolved by pickStrapiConfig
  cms,         \* environment: how the CMS reports pagination
  page,        \* fetchAllBlogPosts: page
  results,     \* fetchAllBlogPosts: results
  requests,    \* environment: page numbers of the CMS requests issued, in order
  json,        \* fetchBlogPage: body of the last successful response
  posts,       \* main: posts
  sitemapXml,  \* main: sitemapXml
  robotsTxt,   \* main: robotsTxt
  dist,        \* file system: the dist directory and its files
  str,         \* escapeXml: argument
  escaped      \* escapeXml: result

vars == <<pc, exitCode, console, env, remoteCfg, localCfg, strapiUrl, siteSlug,
          cms, page, results, requests, json, posts, sitemapXml, robotsTxt,
          dist, str, escaped>>

----------------------------------------------------------------------------
(* Bounds of the model and constants of the program *)

MaxLen == 4         \* longest string given to escapeXml
MaxPosts == 1       \* the CMS holds at most this many records with a slug
MaxRecs == 1        \* records with content per page (the rest is filler)
MaxDataPages == 2   \* pages beyond this one hold filler only
MaxSrc == 2         \* longest post sequence given to the builder alone

pageSize == 100     \* fetchAllBlogPosts: const pageSize = 100
MaxPage == 1000     \* fetchAllBlogPosts: if (page > 1000) break

----------------------------------------------------------------------------
(* JavaScript values *)

Undefined == [t |-> "undefined"]
Null == [t |-> "null"]
Pending == [t |-> "pending"]
Str(s) == [t |-> "string", v |-> s]
Num(n) == [t |-> "number", v |-> n]
Obj(f) == [t |-> "object", f |-> f]
NoFields == [k \in {} |-> Undefined]

\* o?.k : undefined unless o is an object that has the property
Get(o, k) == IF o.t = "object" /\ k \in DOMAIN o.f THEN o.f[k] ELSE Undefined

\* ToBoolean(v) is false: undefined, null, "", 0
Falsy(v) ==
  \/ v.t \in {"undefined", "null"}
  \/ v.t = "string" /\ v.v = <<>>
  \/ v.t = "number" /\ v.v = 0

\* a || b
Or(a, b) == IF Falsy(a) THEN b ELSE a

\* a ?? b
Coalesce(a, b) == IF a.t \in {"undefined", "null"} THEN b ELSE a

----------------------------------------------------------------------------
(* Strings *)

RECURSIVE ReplaceAll(_, _, _)
\* s.replace(/c/g, r) for a one-character pattern c
ReplaceAll(s, c, r) ==
  IF s = <<>> THEN <<>>
  ELSE (IF Head(s) = c THEN r ELSE <<Head(s)>>) \o ReplaceAll(Tail(s), c, r)

AmpEntity == <<"&","a","m","p",";">>
LtEntity == <<"&","l","t",";">>
GtEntity == <<"&","g","t",";">>
QuotEntity == <<"&","q","u","o","t",";">>
AposEntity == <<"&","a","p","o","s",";">>

\* the classic slip: the ampersand replaced last, re-escaping the entities
escapeXmlAmpLast(s) ==
  ReplaceAll(ReplaceAll(ReplaceAll(ReplaceAll(ReplaceAll(s,
    "<", LtEntity), ">", GtEntity), "\"", QuotEntity), "'", AposEntity),
    "&", AmpEntity)

escapeXml(s) ==
  ReplaceAll(ReplaceAll(ReplaceAll(ReplaceAll(ReplaceAll(s,
    "&", AmpEntity), "<", LtEntity), ">", GtEntity), "\"", QuotEntity),
    "'", AposEntity)

RECURSIVE StripTrailingSlashes(_)
\* url.replace(/\/+$/, '')
StripTrailingSlashes(s) ==
  IF s # <<>> /\ s[Len(s)] = "/"
  THEN StripTrailingSlashes(SubSeq(s, 1, Len(s) - 1))
  ELSE s

\* normalizeBaseUrl(url), url a string value or undefined
normalizeBaseUrl(url) == IF Falsy(url) THEN <<>> ELSE StripTrailingSlashes(url.v)

\* characters encodeURIComponent leaves alone, among those the model uses
Unreserved ==
  {"a","b","c","l","t","x","y","z","p","q","1","-","_",".","!","~","*","'","(",")"}

\* the %XX escape of a character encodeURIComponent does not leave alone
PercentOf(c) ==
  CASE c = "&" -> <<"%","2","6">>
    [] c = "/" -> <<"%","2","F">>
    [] c = " " -> <<"%","2","0">>
    [] c = "<" -> <<"%","3","C">>
    [] c = ">" -> <<"%","3","E">>
    [] c = "\"" -> <<"%","2","2">>
    [] c = ";" -> <<"%","3","B">>
    [] c = "%" -> <<"%","2","5">>

RECURSIVE encodeURIComponent(_)
encodeURIComponent(s) ==
  IF s = <<>> THEN <<>>
  ELSE (IF Head(s) \in Unreserved THEN <<Head(s)>> ELSE PercentOf(Head(s)))
       \o encodeURIComponent(Tail(s))

----------------------------------------------------------------------------
(* pickStrapiConfig *)

\* cfg?.basic ?? cfg?.Basic ?? {}
BasicOf(cfg) ==
  Coalesce(Coalesce(Get(cfg, "basic"), Get(cfg, "Basic")), Obj(NoFields))

\* a slip: the local file consulted before the remote document
pickStrapiConfigLocalFirst(e, remote, local) ==
  [strapiUrl |-> Or(Or(Get(e, "strapi_url"), Get(BasicOf(local), "strapi_url")),
                    Get(BasicOf(remote), "strapi_url")),
   siteSlug |-> Or(Or(Get(e, "strapi_site_slug"),
                      Get(BasicOf(local), "strapi_site_slug")),
                   Get(BasicOf(remote), "strapi_site_slug"))]

pickStrapiConfig(e, remote, local) ==
  [strapiUrl |-> Or(Or(Get(e, "strapi_url"), Get(BasicOf(remote), "strapi_url")),
                    Get(BasicOf(local), "strapi_url")),
   siteSlug |-> Or(Or(Get(e, "strapi_site_slug"),
                      Get(BasicOf(remote), "strapi_site_slug")),
                   Get(BasicOf(local), "strapi_site_slug"))]

----------------------------------------------------------------------------
(* Date: new Date(string) and Date.prototype.toISOString *)

NaN == [t |-> "NaN"]
Threw(e) == [t |-> "throw", error |-> e]

Date1 == <<"2","0","2","4","-","0","1","-","0","2">>
Date2 == <<"2","0","2","4","-","0","1","-","0","2","T","0","5",":","0","4",":","0","5","+","0","2",":","0","0">>
Date3 == <<"2","0","2","3","-","0","6","-","1","5","T","1","2",":","3","0",":","0","0",".","0","0","0","Z">>
NotADate == <<"n","o","t","-","a","-","d","a","t","e">>

\* new Date(s).getTime() in seconds, for the date strings the CMS of the model
\* sends: a date-only form is UTC midnight, an offset is applied, and a string
\* that is no date gives an Invalid Date (NaN)
DateParse(s) ==
  CASE s = Date1 -> Num(1704153600)
    [] s = Date2 -> Num(1704164645)
    [] s = Date3 -> Num(1686832200)
    [] OTHER -> NaN

Digit(n) == <<"0","1","2","3","4","5","6","7","8","9">>[n + 1]
Pad2(n) == <<Digit(n \div 10), Digit(n % 10)>>
Pad4(n) == <<Digit(n \div 1000), Digit((n \div 100) % 10)>> \o Pad2(n % 100)

\* the civil date [y, m, d] of a day number counted from 1970-01-01
CivilFromDays(days) ==
  LET z == days + 719468
      era == z \div 146097
      doe == z - era * 146097
      yoe == (doe - doe \div 1460 + doe \div 36524 - doe \div 146096) \div 365
      doy == doe - (365 * yoe + yoe \div 4 - yoe \div 100)
      mp == (5 * doy + 2) \div 153
      m == IF mp < 10 THEN mp + 3 ELSE mp - 9
  IN [y |-> yoe + era * 400 + (IF m <= 2 THEN 1 ELSE 0),
      m |-> m,
      d |-> doy - (153 * mp + 2) \div 5 + 1]

\* d.toISOString(): YYYY-MM-DDTHH:mm:ss.sssZ in UTC, a RangeError on an
\* Invalid Date
toISOString(time) ==
  IF time = NaN THEN Threw("RangeError")
  ELSE LET c == CivilFromDays(time.v \div 86400)
           secs == time.v % 86400
       IN Str(Pad4(c.y) \o <<"-">> \o Pad2(c.m) \o <<"-">> \o Pad2(c.d) \o <<"T">>
              \o Pad2(secs \div 3600) \o <<":">> \o Pad2((secs \div 60) % 60)
              \o <<":">> \o Pad2(secs % 60) \o <<".","0","0","0","Z">>)

----------------------------------------------------------------------------
(* fetchBlogPage: what it makes of a response body *)

Arr(s) == [t |-> "array", v |-> s]

\* Array.isArray(json?.data) ? json.data : []
DataOf(body) ==
  IF Get(body, "data").t = "array" THEN Get(body, "data").v ELSE <<>>

\* a slip: createdAt preferred to publishedAt
ToItemCreatedFirst(it) ==
  LET attrs == Or(Get(it, "attributes"), it)
  IN [slug |-> Get(attrs, "slug"),
      updatedAt |-> Or(Or(Or(Get(attrs, "updatedAt"), Get(attrs, "createdAt")),
                          Get(attrs, "publishedAt")), Null)]

\* the .map callback
ToItem(it) ==
  LET attrs == Or(Get(it, "attributes"), it)
  IN [slug |-> Get(attrs, "slug"),
      updatedAt |-> Or(Or(Or(Get(attrs, "updatedAt"), Get(attrs, "publishedAt")),
                          Get(attrs, "createdAt")), Null)]

\* the test of .filter((x) => !!x.slug)
HasSlug(x) == ~Falsy(x.slug)

ItemsOf(body) ==
  LET data == DataOf(body)
  IN SelectSeq([i \in 1..Len(data) |-> ToItem(data[i])], HasSlug)

\* json?.meta?.pagination?.pageCount
PageCountOf(body) == Get(Get(Get(body, "meta"), "pagination"), "pageCount")

\* a slip: the last page fetched once more
HasNextInclusive(body, p) ==
  IF ~Falsy(PageCountOf(body))
  THEN p <= PageCountOf(body).v
  ELSE Len(DataOf(body)) = pageSize

\* a slip: the page counted after the records without a slug are dropped
HasNextCountsItems(body, p) ==
  IF ~Falsy(PageCountOf(body))
  THEN p < PageCountOf(body).v
  ELSE Len(ItemsOf(body)) = pageSize

\* const next = pageCount ? page < pageCount : data.length === pageSize
HasNext(body, p) ==
  IF ~Falsy(PageCountOf(body))
  THEN p < PageCountOf(body).v
  ELSE Len(DataOf(body)) = pageSize

\* a slip: the cap checked one page late
OverCapLate(p) == p > MaxPage + 1

\* if (page > 1000) break
OverCap(p) == p > MaxPage

\* new URL('/api/blog-posts', strapiUrl) needs an absolute base: a scheme,
\* then a colon
IsAbsoluteUrl(u) ==
  /\ u.t = "string"
  /\ \E i \in 2..Len(u.v) : u.v[i] = ":" /\ \A j \in 1..(i - 1) : u.v[j] \notin {"/", ":"}

----------------------------------------------------------------------------
(* buildSitemapXml and buildRobotsTxt *)

Daily == <<"d","a","i","l","y">>
Weekly == <<"w","e","e","k","l","y">>

\* p.updatedAt ? new Date(p.updatedAt).toISOString() : undefined
LastmodOf(p) ==
  IF Falsy(p.updatedAt) THEN Undefined ELSE toISOString(DateParse(p.updatedAt.v))

\* the object pushed for a post
PostUrl(base, p) ==
  [loc |-> base \o <<"/","b","l","o","g","/">> \o encodeURIComponent(p.slug.v),
   lastmod |-> LastmodOf(p),
   changefreq |-> Weekly,
   priority |-> <<"0",".","6">>]

\* the urls array: the root, the blog index, then the posts in order
UrlsOf(base, ps) ==
  << [loc |-> base \o <<"/">>, lastmod |-> Undefined, changefreq |-> Daily,
      priority |-> <<"1">>],
     [loc |-> base \o <<"/","b","l","o","g">>, lastmod |-> Undefined,
      changefreq |-> Daily, priority |-> <<"0",".","8">>] >>
  \o [i \in 1..Len(ps) |-> PostUrl(base, ps[i])]

Element(tag, text) == [tag |-> tag, text |-> text]

\* one <url> element: the children in the order they are written
UrlElement(u) ==
  <<Element("loc", escapeXml(u.loc))>>
  \o (IF Falsy(u.lastmod) THEN <<>> ELSE <<Element("lastmod", escapeXml(u.lastmod.v))>>)
  \o <<Element("changefreq", u.changefreq), Element("priority", u.priority)>>

\* the document: the declaration, then the urlset of <url> elements; a
\* RangeError of toISOString leaves the function before anything is returned
buildSitemapXml(siteUrl, ps) ==
  LET base == normalizeBaseUrl(siteUrl)
      urls == UrlsOf(base, ps)
  IN IF \E i \in 1..Len(urls) : urls[i].lastmod.t = "throw"
     THEN Threw("RangeError")
     ELSE [t |-> "xml",
           decl |-> "<?xml version=\"1.0\" encoding=\"UTF-8\"?>",
           xmlns |-> "http://www.sitemaps.org/schemas/sitemap/0.9",
           urlset |-> [i \in 1..Len(urls) |-> UrlElement(urls[i])]]

buildRobotsTxt(siteUrl) ==
  [t |-> "text",
   line1 |-> "User-agent: *",
   line2 |-> "Allow: /",
   line3 |-> <<"S","i","t","e","m","a","p",":"," ">> \o normalizeBaseUrl(siteUrl)
             \o <<"/","s","i","t","e","m","a","p",".","x","m","l">>]

----------------------------------------------------------------------------
(* The environment of a run: process.env, the two configuration sources    *)
(* and the CMS                                                             *)

SiteUrl == <<"h","t","t","p",":","/","/","x",".","y","/","a","&","b","/","/">>
CmsUrl == <<"h","t","t","p","s",":","/","/","c","m","s",".","x">>
Slug1 == <<"s","i","t","e","-","1">>

\* process.env: without SITE_URL, with SITE_URL alone, and with a strapi_url
\* that is no absolute URL
Envs ==
  { Obj(NoFields),
    Obj([SITE_URL |-> Str(SiteUrl)]),
    Obj([SITE_URL |-> Str(SiteUrl), strapi_url |-> Str(<<"c","m","s">>),
         strapi_site_slug |-> Str(Slug1)]) }

\* what GET <siteUrl>/config.json gives: nothing (a failure), or a document
RemoteOutcomes == { Null, Obj([basic |-> Obj([strapi_url |-> Str(CmsUrl)])]) }

\* what public/config.json gives: nothing (a failure), or a document
LocalOutcomes == { Null, Obj([Basic |-> Obj([strapi_site_slug |-> Str(Slug1)])]) }

\* a CMS that reports the same pageCount n on every response, or one that
\* reports what it likes on each (kind "any")
CmsKinds ==
  { [kind |-> "fixed", n |-> k] : k \in {1, 2, 3, MaxPage} }
  \cup { [kind |-> "any", n |-> 0] }

\* records of the CMS: one in the attributes form with a date, one flat with a
\* createdAt that is no date; Filler is a record without a slug
RecGood ==
  Obj([id |-> Num(1),
       attributes |-> Obj([slug |-> Str(<<"a","&","b">>), updatedAt |-> Str(Date1)])])
RecBadDate == Obj([slug |-> Str(<<"c">>), createdAt |-> Str(NotADate)])
Filler == Obj([id |-> Num(2)])
ContentRecs == { RecGood, RecBadDate }

BoundedSeq(S, n) == UNION { [1..k -> S] : k \in 0..n }
Min(a, b) == IF a < b THEN a ELSE b

\* the pageCount of the response for page p: absent, 0, one more than p, or
\* (on the pages that hold records) p itself
PageCountChoices(p) ==
  IF cms.kind = "fixed" THEN { Num(cms.n) }
  ELSE { Undefined, Num(0), Num(p + 1) }
       \cup (IF p <= MaxDataPages THEN { Num(p) } ELSE {})

RecChoices(p) ==
  IF p <= MaxDataPages
  THEN BoundedSeq(ContentRecs, Min(MaxRecs, MaxPosts - Len(results)))
  ELSE { <<>> }

\* lengths of the data array of page p: the records alone, or filled up to
\* around a full page
LenChoices(recs, p) ==
  { Len(recs), pageSize }
  \cup (IF p <= MaxDataPages THEN { pageSize - 1, pageSize + 1 } ELSE {})

\* a listing body: data holds recs, then filler up to len elements
Body(pcv, recs, len) ==
  Obj([data |-> Arr(recs \o [i \in 1..(len - Len(recs)) |-> Filler]),
       meta |-> Obj([pagination |->
                 IF pcv = Undefined THEN Obj(NoFields) ELSE Obj([pageCount |-> pcv])])])

\* bodies that are no listing at all
OddBodies(p) == IF p <= MaxDataPages THEN { Null } ELSE {}

----------------------------------------------------------------------------
(* main *)

NoFiles == [k \in {} |-> Undefined]

Idle ==
  /\ str = <<>>
  /\ escaped = <<>>

Init ==
  /\ pc = "main"
  /\ exitCode = -1
  /\ console = <<>>
  /\ env \in Envs
  /\ remoteCfg = Pending
  /\ localCfg = Pending
  /\ strapiUrl = Undefined
  /\ siteSlug = Undefined
  /\ cms \in CmsKinds
  /\ page = 0
  /\ results = <<>>
  /\ requests = <<>>
  /\ json = Undefined
  /\ posts = <<>>
  /\ sitemapXml = Undefined
  /\ robotsTxt = Undefined
  /\ dist = [exists |-> FALSE, files |-> NoFiles]
  /\ Idle

\* process.exit(code), after printing msg with console.error
Exit(msg, code) ==
  /\ console' = Append(console, msg)
  /\ exitCode' = code
  /\ pc' = "exited"

\* main: const siteUrl = process.env.SITE_URL; if (!siteUrl) exit(1);
\* then both lookups are started
CheckSiteUrl ==
  /\ pc = "main"
  /\ IF Falsy(Get(env, "SITE_URL"))
     THEN Exit("error: SITE_URL env is required", 1)
     ELSE /\ pc' = "config"
          /\ UNCHANGED <<console, exitCode>>
  /\ UNCHANGED <<env, remoteCfg, localCfg, strapiUrl, siteSlug, cms, page, results,
                 requests, json, posts, sitemapXml, robotsTxt, dist, str, escaped>>

\* fetchRemoteConfigByHttp resolves: null on a non-OK status or an error
FetchRemoteConfig ==
  /\ pc = "config"
  /\ remoteCfg = Pending
  /\ \E r \in RemoteOutcomes : remoteCfg' = r
  /\ UNCHANGED <<pc, exitCode, console, env, localCfg, strapiUrl, siteSlug, cms, page,
                 results, requests, json, posts, sitemapXml, robotsTxt, dist, str,
                 escaped>>

\* readLocalPublicConfig resolves: null on any failure
ReadLocalConfig ==
  /\ pc = "config"
  /\ localCfg = Pending
  /\ \E r \in LocalOutcomes : localCfg' = r
  /\ UNCHANGED <<pc, exitCode, console, env, remoteCfg, strapiUrl, siteSlug, cms, page,
                 results, requests, json, posts, sitemapXml, robotsTxt, dist, str,
                 escaped>>

\* a slip: the run stopped only when both values are missing
MissingConfigBoth(c) == Falsy(c.strapiUrl) /\ Falsy(c.siteSlug)

\* if (!strapiUrl || !siteSlug)
MissingConfig(c) == Falsy(c.strapiUrl) \/ Falsy(c.siteSlug)

\* main after Promise.all: pickStrapiConfig, the check of its result, and
\* the entry of fetchAllBlogPosts (results = [], page = 1)
PickConfig ==
  /\ pc = "config"
  /\ remoteCfg # Pending
  /\ localCfg # Pending
  /\ LET c == pickStrapiConfig(env, remoteCfg, localCfg)
     IN /\ strapiUrl' = c.strapiUrl
        /\ siteSlug' = c.siteSlug
        /\ IF MissingConfig(c)
           THEN /\ Exit("error: strapi_url or strapi_site_slug is missing", 1)
                /\ UNCHANGED <<page, results, posts>>
           ELSE /\ console' = console \o <<"log: Generating sitemap", "log: Using Strapi">>
                /\ pc' = "fetch"
                /\ page' = 1
                /\ results' = <<>>
                /\ posts' = <<>>
                /\ UNCHANGED exitCode
  /\ UNCHANGED <<env, remoteCfg, localCfg, cms, requests, json, sitemapXml, robotsTxt,
                 dist, str, escaped>>

\* a slip: the posts of the pages fetched before the error are kept
CaughtPostsPartial(acc) == acc

\* catch (err) { ...; posts = []; }
CaughtPosts(acc) == <<>>

\* an error thrown inside fetchAllBlogPosts reaches the catch of main
FetchThrows ==
  /\ console' = Append(console, "warn: Failed to fetch posts from Strapi")
  /\ posts' = CaughtPosts(results)
  /\ json' = Undefined
  /\ pc' = "build"
  /\ UNCHANGED <<page, results>>

\* fetchBlogPage got a 200 with this body: the rest of the iteration
FetchReturns(body) ==
  LET all == results \o ItemsOf(body)
  IN /\ json' = body
     /\ results' = all
     /\ console' = console
     /\ IF ~HasNext(body, page)
        THEN /\ posts' = all
             /\ pc' = "build"
             /\ page' = page
        ELSE /\ page' = page + 1
             /\ IF OverCap(page + 1)
                THEN /\ posts' = all
                     /\ pc' = "build"
                ELSE /\ pc' = "fetch"
                     /\ posts' = posts

\* one iteration of the loop of fetchAllBlogPosts: fetchBlogPage for the
\* current page, results.push(...items), and the two breaks; the return of
\* fetchAllBlogPosts assigns posts
FetchBlogPage ==
  /\ pc = "fetch"
  /\ IF ~IsAbsoluteUrl(strapiUrl)
     THEN /\ FetchThrows
          /\ UNCHANGED requests
     ELSE /\ requests' = Append(requests, page)
          /\ \/ FetchThrows
             \/ \E body \in OddBodies(page) : FetchReturns(body)
             \/ \E pcv \in PageCountChoices(page), recs \in RecChoices(page) :
                  \E len \in LenChoices(recs, page) : FetchReturns(Body(pcv, recs, len))
  /\ UNCHANGED <<exitCode, env, remoteCfg, localCfg, strapiUrl, siteSlug, cms,
                 sitemapXml, robotsTxt, dist, str, escaped>>

\* buildSitemapXml and buildRobotsTxt; an error thrown by the builder is not
\* caught in main and reaches main().catch: console.error, process.exit(1)
Build ==
  /\ pc = "build"
  /\ LET xml == buildSitemapXml(Get(env, "SITE_URL"), posts)
     IN /\ sitemapXml' = xml
        /\ IF xml.t = "throw"
           THEN /\ Exit("error: Fatal error", 1)
                /\ UNCHANGED robotsTxt
           ELSE /\ robotsTxt' = buildRobotsTxt(Get(env, "SITE_URL"))
                /\ pc' = "write"
                /\ UNCHANGED <<console, exitCode>>
  /\ UNCHANGED <<env, remoteCfg, localCfg, strapiUrl, siteSlug, cms, page, results,
                 requests, json, posts, dist, str, escaped>>

\* fs.mkdir(dist, recursive), the two fs.writeFile and the two console.log;
\* main returns and the process ends with status 0
Write ==
  /\ pc = "write"
  /\ dist' = [exists |-> TRUE,
              files |-> ("sitemap.xml" :> sitemapXml) @@ ("robots.txt" :> robotsTxt)
                        @@ dist.files]
  /\ console' = console \o <<"log: Wrote dist/sitemap.xml", "log: Wrote dist/robots.txt">>
  /\ exitCode' = 0
  /\ pc' = "exited"
  /\ UNCHANGED <<env, remoteCfg, localCfg, strapiUrl, siteSlug, cms, page, results,
                 requests, json, posts, sitemapXml, robotsTxt, str, escaped>>

Next ==
  \/ CheckSiteUrl
  \/ FetchRemoteConfig
  \/ ReadLocalConfig
  \/ PickConfig
  \/ FetchBlogPage
  \/ Build
  \/ Write

Spec == Init /\ [][Next]_vars

----------------------------------------------------------------------------
(* escapeXml applied to every short string over the special characters and *)
(* the letters of an entity                                                *)

EscAlphabet == {"&", "<", ">", "\"", "'", "l", "t", ";"}

InitEscape ==
  /\ pc = "escapeXml"
  /\ str \in BoundedSeq(EscAlphabet, MaxLen)
  /\ escaped = <<>>
  /\ exitCode = -1
  /\ console = <<>>
  /\ env = Obj(NoFields)
  /\ remoteCfg = Pending
  /\ localCfg = Pending
  /\ strapiUrl = Undefined
  /\ siteSlug = Undefined
  /\ cms = [kind |-> "any", n |-> 0]
  /\ page = 0
  /\ results = <<>>
  /\ requests = <<>>
  /\ json = Undefined
  /\ posts = <<>>
  /\ sitemapXml = Undefined
  /\ robotsTxt = Undefined
  /\ dist = [exists |-> FALSE, files |-> NoFiles]

EscapeXmlCall ==
  /\ pc = "escapeXml"
  /\ escaped' = escapeXml(str)
  /\ pc' = "returned"
  /\ UNCHANGED <<exitCode, console, env, remoteCfg, localCfg, strapiUrl, siteSlug, cms,
                 page, results, requests, json, posts, sitemapXml, robotsTxt, dist, str>>

NextEscape == EscapeXmlCall

SpecEscape == InitEscape /\ [][NextEscape]_vars

----------------------------------------------------------------------------
(* pickStrapiConfig applied to the environments and documents that differ  *)
(* in which source has which field                                         *)

\* an object with the properties whose value is not undefined
Section(url, slug) ==
  Obj([k \in (IF url = Undefined THEN {} ELSE {"strapi_url"})
              \cup (IF slug = Undefined THEN {} ELSE {"strapi_site_slug"}) |->
         IF k = "strapi_url" THEN url ELSE slug])

\* the sections a source tagged c may hold: each field absent, empty or set
Sections(c) ==
  { Section(u, g) : u \in {Undefined, Str(<<>>), Str(<<c, "u">>)},
                    g \in {Undefined, Str(<<c, "g">>)} }

\* a document: null, or an object with a basic section (absent, null or a
\* section) and possibly a Basic section
Documents(c) ==
  { Null }
  \cup { Obj([k \in (IF b = Undefined THEN {} ELSE {"basic"})
                    \cup (IF B = Undefined THEN {} ELSE {"Basic"}) |->
                IF k = "basic" THEN b ELSE B]) :
           b \in {Undefined, Null} \cup Sections(c),
           B \in {Undefined, Section(Str(<<c, "U">>), Str(<<c, "G">>))} }

InitPick ==
  /\ pc = "pickStrapiConfig"
  /\ env \in Sections("e")
  /\ remoteCfg \in Documents("r")
  /\ localCfg \in Documents("l")
  /\ strapiUrl = Undefined
  /\ siteSlug = Undefined
  /\ exitCode = -1
  /\ console = <<>>
  /\ cms = [kind |-> "any", n |-> 0]
  /\ page = 0
  /\ results = <<>>
  /\ requests = <<>>
  /\ json = Undefined
  /\ posts = <<>>
  /\ sitemapXml = Undefined
  /\ robotsTxt = Undefined
  /\ dist = [exists |-> FALSE, files |-> NoFiles]
  /\ Idle

PickCall ==
  /\ pc = "pickStrapiConfig"
  /\ LET c == pickStrapiConfig(env, remoteCfg, localCfg)
     IN /\ strapiUrl' = c.strapiUrl
        /\ siteSlug' = c.siteSlug
  /\ pc' = "returned"
  /\ UNCHANGED <<exitCode, console, env, remoteCfg, localCfg, cms, page, results,
                 requests, json, posts, sitemapXml, robotsTxt, dist, str, escaped>>

NextPick == PickCall

SpecPick == InitPick /\ [][NextPick]_vars

----------------------------------------------------------------------------
(* The record mapping of fetchBlogPage followed by buildSitemapXml, applied *)
(* to every short page of records that differ in slug and timestamps       *)

SrcSlug == <<"x","'","&","y">>

\* a flat record with the properties whose value is not undefined
Rec(slug, u, pub, c) ==
  Obj([k \in (IF slug = Undefined THEN {} ELSE {"slug"})
              \cup (IF u = Undefined THEN {} ELSE {"updatedAt"})
              \cup (IF pub = Undefined THEN {} ELSE {"publishedAt"})
              \cup (IF c = Undefined THEN {} ELSE {"createdAt"}) |->
         CASE k = "slug" -> slug
           [] k = "updatedAt" -> u
           [] k = "publishedAt" -> pub
           [] k = "createdAt" -> c])

SrcRecs ==
  { Rec(g, u, pub, c) :
      g \in {Undefined, Str(SrcSlug)},
      u \in {Undefined, Str(<<>>), Str(Date1), Str(NotADate)},
      pub \in {Null, Str(Date2)},
      c \in {Undefined, Str(Date3)} }
  \cup { RecGood, Obj([id |-> Num(3), attributes |-> Rec(Str(SrcSlug), Undefined, Null, Str(Date3))]) }

InitBuild ==
  /\ pc = "fetchBlogPage"
  /\ env = Obj([SITE_URL |-> Str(SiteUrl)])
  /\ \E recs \in BoundedSeq(SrcRecs, MaxSrc) : json = Body(Undefined, recs, Len(recs))
  /\ posts = <<>>
  /\ sitemapXml = Undefined
  /\ exitCode = -1
  /\ console = <<>>
  /\ remoteCfg = Pending
  /\ localCfg = Pending
  /\ strapiUrl = Undefined
  /\ siteSlug = Undefined
  /\ cms = [kind |-> "any", n |-> 0]
  /\ page = 0
  /\ results = <<>>
  /\ requests = <<>>
  /\ robotsTxt = Undefined
  /\ dist = [exists |-> FALSE, files |-> NoFiles]
  /\ Idle

\* fetchBlogPage from the body on: the items of the page become the posts
MapPage ==
  /\ pc = "fetchBlogPage"
  /\ posts' = ItemsOf(json)
  /\ pc' = "buildSitemapXml"
  /\ UNCHANGED <<exitCode, console, env, remoteCfg, localCfg, strapiUrl, siteSlug, cms,
                 page, results, requests, json, sitemapXml, robotsTxt, dist, str,
                 escaped>>

\* buildSitemapXml returns the document or throws
BuildCall ==
  /\ pc = "buildSitemapXml"
  /\ sitemapXml' = buildSitemapXml(Get(env, "SITE_URL"), posts)
  /\ pc' = "returned"
  /\ UNCHANGED <<exitCode, console, env, remoteCfg, localCfg, strapiUrl, siteSlug, cms,
                 page, results, requests, json, posts, robotsTxt, dist, str, escaped>>

NextBuild == MapPage \/ BuildCall

SpecBuild == InitBuild /\ [][NextBuild]_vars

----------------------------------------------------------------------------
(* Properties *)

SiteUrlSet == ~Falsy(Get(env, "SITE_URL"))
Resolved == pc \notin {"main", "config"}
NothingWritten == dist = [exists |-> FALSE, files |-> NoFiles]
BothWritten ==
  /\ dist.exists
  /\ DOMAIN dist.files = {"sitemap.xml", "robots.txt"}
  /\ dist.files["sitemap.xml"].t = "xml"
  /\ dist.files["robots.txt"].t = "text"
FetchEnded == pc \in {"build", "write", "exited"}
\* the last CMS request was answered with an error
RequestFailed == requests # <<>> /\ json = Undefined
\* the last CMS request was answered with a body
RequestAnswered == requests # <<>> /\ json # Undefined
UpTo(n) == [i \in 1..n |-> i]

\* the <loc> text of the two static entries for SITE_URL
RootLoc == escapeXml(StripTrailingSlashes(Get(env, "SITE_URL").v) \o <<"/">>)
BlogLoc == escapeXml(StripTrailingSlashes(Get(env, "SITE_URL").v) \o <<"/","b","l","o","g">>)
StaticRoot ==
  <<Element("loc", RootLoc), Element("changefreq", Daily), Element("priority", <<"1">>)>>
StaticBlog ==
  <<Element("loc", BlogLoc), Element("changefreq", Daily),
    Element("priority", <<"0",".","8">>)>>

\* C1: with SITE_URL set, once pickStrapiConfig has left strapiUrl or siteSlug
\* empty the process has exited with status 1, nothing was created or written
\* under dist and no CMS request was issued
C1_UnresolvedExitsOneWritesNothing ==
  (Resolved /\ SiteUrlSet /\ (Falsy(strapiUrl) \/ Falsy(siteSlug)))
    => /\ pc = "exited"
       /\ exitCode = 1
       /\ NothingWritten
       /\ requests = <<>>

C1_Witness ==
  /\ pc = "exited"
  /\ SiteUrlSet
  /\ ~Falsy(strapiUrl)
  /\ Falsy(siteSlug)
  /\ remoteCfg # Null
  /\ exitCode = 1

\* C2: after a CMS request failed the posts handed to the builder are empty,
\* whatever earlier pages gave, the run goes on to the writer, and when it
\* has ended the status is 0, both files are written and the sitemap holds
\* exactly the root and the blog index
C2_FailedFetchGivesStaticSitemap ==
  RequestFailed
    => /\ posts = <<>>
       /\ pc \in {"build", "write", "exited"}
       /\ pc = "write" => (sitemapXml.t = "xml" /\ sitemapXml.urlset = <<StaticRoot, StaticBlog>>)
       /\ pc = "exited"
            => /\ exitCode = 0
               /\ BothWritten
               /\ dist.files["sitemap.xml"].urlset = <<StaticRoot, StaticBlog>>

C2_Witness ==
  /\ RequestFailed
  /\ Len(requests) >= 2
  /\ results # <<>>
  /\ pc = "exited"
  /\ exitCode = 0
  /\ Len(dist.files["sitemap.xml"].urlset) = 2

\* C3: when the CMS reports the same pageCount N on every response
\* (1 <= N <= 1000) and fetchAllBlogPosts has returned, the requests issued
\* are exactly those for pages 1, 2, ..., N
C3_FixedPageCountFetchesNPages ==
  (/\ cms.kind = "fixed"
   /\ cms.n \in 1..MaxPage
   /\ FetchEnded
   /\ RequestAnswered
   /\ PageCountOf(json) = Num(cms.n))
    => requests = UpTo(cms.n)

C3_Witness ==
  /\ cms.kind = "fixed"
  /\ cms.n = MaxPage
  /\ pc = "exited"
  /\ RequestAnswered
  /\ PageCountOf(json) = Num(cms.n)
  /\ Len(DataOf(json)) = pageSize
  /\ Len(requests) = MaxPage

\* C5: with SITE_URL set and strapiUrl and siteSlug resolved, whatever the
\* CMS answers the run ends with status 0 and both files written
C5_CmsNeverFatal ==
  (pc = "exited" /\ SiteUrlSet /\ Resolved /\ ~Falsy(strapiUrl) /\ ~Falsy(siteSlug))
    => exitCode = 0 /\ BothWritten

\* C9: the pages requested are 1, 2, ..., k in order with k <= 1000, and the
\* loop is about to request a page only while fewer than 1000 were requested
C9_AtMostCapRequestsInOrder ==
  /\ requests = UpTo(Len(requests))
  /\ Len(requests) <= MaxPage
  /\ pc = "fetch" => (page = Len(requests) + 1 /\ Len(requests) < MaxPage)

C9_Witness ==
  /\ cms.kind = "any"
  /\ pc = "exited"
  /\ Len(requests) = MaxPage
  /\ RequestAnswered
  /\ HasNext(json, MaxPage)

\* the loop goes on to request the page after the one just answered
GoesOn == pc = "fetch" /\ page = Len(requests) + 1

\* C10 as stated: a response that carries a pageCount field decides by
\* p < pageCount, one without the field by a full data array
C10_FieldDecides ==
  RequestAnswered
    => LET p == Len(requests)
       IN IF PageCountOf(json) # Undefined
          THEN GoesOn <=> (p < PageCountOf(json).v /\ p < MaxPage)
          ELSE GoesOn <=> (Len(DataOf(json)) = pageSize /\ p < MaxPage)

\* C10 amended: a pageCount other than 0 decides by p < pageCount; without
\* the field, or with a pageCount of 0, page p + 1 is requested exactly when
\* the data array of page p holds exactly 100 elements, slugless ones
\* counted (both subject to the 1000-page cap)
C10_NonZeroCountDecides ==
  RequestAnswered
    => LET p == Len(requests)
           count == PageCountOf(json)
       IN IF count # Undefined /\ count.v # 0
          THEN GoesOn <=> (p < count.v /\ p < MaxPage)
          ELSE GoesOn <=> (Len(DataOf(json)) = pageSize /\ p < MaxPage)

C10_Witness ==
  /\ RequestAnswered
  /\ PageCountOf(json) = Num(0)
  /\ Len(DataOf(json)) = pageSize
  /\ Len(ItemsOf(json)) = 1
  /\ GoesOn

\* C4: each of strapiUrl and siteSlug is the first non-empty value of its own
\* field in the order environment, remote basic section, local basic
\* section, and is empty only when all three are
Empty(v) == v = Undefined \/ v = Null \/ v = Str(<<>>)
FirstNonEmpty(vals, got) ==
  IF \E i \in 1..Len(vals) : ~Empty(vals[i])
  THEN \E i \in 1..Len(vals) :
         /\ ~Empty(vals[i])
         /\ \A j \in 1..(i - 1) : Empty(vals[j])
         /\ got = vals[i]
  ELSE Empty(got)
SourcesOf(field) ==
  <<Get(env, field), Get(BasicOf(remoteCfg), field), Get(BasicOf(localCfg), field)>>

C4_FirstNonEmptySourceWins ==
  pc = "returned"
    => /\ FirstNonEmpty(SourcesOf("strapi_url"), strapiUrl)
       /\ FirstNonEmpty(SourcesOf("strapi_site_slug"), siteSlug)

C4_Witness ==
  /\ pc = "returned"
  /\ Get(env, "strapi_url") = Str(<<>>)
  /\ Get(BasicOf(remoteCfg), "strapi_url") = Str(<<>>)
  /\ strapiUrl = Str(<<"l", "u">>)
  /\ Get(BasicOf(localCfg), "strapi_site_slug") # Undefined
  /\ siteSlug = Str(<<"r", "g">>)

\* the <url> element the claims expect for a post
ExpectedLoc(p) ==
  escapeXml(StripTrailingSlashes(Get(env, "SITE_URL").v) \o <<"/","b","l","o","g","/">>
            \o encodeURIComponent(p.slug.v))
IsPostEntry(e, p) ==
  /\ e[1] = Element("loc", ExpectedLoc(p))
  /\ e[Len(e) - 1] = Element("changefreq", Weekly)
  /\ e[Len(e)] = Element("priority", <<"0",".","6">>)
  /\ Len(e) \in {3, 4}

\* C6: for every post sequence of length n buildSitemapXml gives n + 2 url
\* entries: the root (priority 1, daily), the blog index (0.8, daily), then
\* one entry per post (0.6, weekly) in the order of the posts
C6_EveryPostSequenceGivesNPlusTwo ==
  pc = "returned"
    => /\ sitemapXml.t = "xml"
       /\ Len(sitemapXml.urlset) = Len(posts) + 2
       /\ sitemapXml.urlset[1] = StaticRoot
       /\ sitemapXml.urlset[2] = StaticBlog
       /\ \A i \in 1..Len(posts) : IsPostEntry(sitemapXml.urlset[i + 2], posts[i])

\* what C6 says holds of every document the builder returns
C6_ReturnedDocumentHasNPlusTwo ==
  (pc = "returned" /\ sitemapXml.t = "xml")
    => /\ Len(sitemapXml.urlset) = Len(posts) + 2
       /\ sitemapXml.urlset[1] = StaticRoot
       /\ sitemapXml.urlset[2] = StaticBlog
       /\ \A i \in 1..Len(posts) : IsPostEntry(sitemapXml.urlset[i + 2], posts[i])

\* the first available of updatedAt, publishedAt, createdAt of a source
\* record, null when there is none
SrcAttrs(it) == IF Empty(Get(it, "attributes")) THEN it ELSE Get(it, "attributes")
FirstAvailable(it) ==
  IF ~Empty(Get(SrcAttrs(it), "updatedAt")) THEN Get(SrcAttrs(it), "updatedAt")
  ELSE IF ~Empty(Get(SrcAttrs(it), "publishedAt")) THEN Get(SrcAttrs(it), "publishedAt")
  ELSE IF ~Empty(Get(SrcAttrs(it), "createdAt")) THEN Get(SrcAttrs(it), "createdAt")
  ELSE Null
SrcHasSlug(it) == ~Empty(Get(SrcAttrs(it), "slug"))

Iso1 == <<"2","0","2","4","-","0","1","-","0","2","T","0","0",":","0","0",":","0","0",".","0","0","0","Z">>
Iso2 == <<"2","0","2","4","-","0","1","-","0","2","T","0","3",":","0","4",":","0","5",".","0","0","0","Z">>
\* the ISO-8601 form of the timestamps of the model
ExpectedIso(d) ==
  CASE d = Date1 -> Iso1
    [] d = Date2 -> Iso2
    [] d = Date3 -> Date3
IsTimestamp(v) == v.t = "string" /\ v.v \in {Date1, Date2, Date3}
HasLastmod(e) == \E k \in 1..Len(e) : e[k].tag = "lastmod"

Entities ==
  { <<AmpEntity, "&">>, <<LtEntity, "<">>, <<GtEntity, ">">>, <<QuotEntity, "\"">>,
    <<AposEntity, "'">> }
StartsWith(s, e) == Len(s) >= Len(e) /\ SubSeq(s, 1, Len(e)) = e
RECURSIVE UnescapeXml(_)
UnescapeXml(s) ==
  IF s = <<>> THEN <<>>
  ELSE IF \E e \in Entities : StartsWith(s, e[1])
  THEN LET e == CHOOSE x \in Entities : StartsWith(s, x[1])
       IN <<e[2]>> \o UnescapeXml(SubSeq(s, Len(e[1]) + 1, Len(s)))
  ELSE <<Head(s)>> \o UnescapeXml(Tail(s))

\* C8: escapeXml(s) holds none of < > " ', holds & only as the first
\* character of one of the five entities, and decodes back to s
C8_EscapeXmlRoundTrips ==
  pc = "returned"
    => /\ \A i \in 1..Len(escaped) : escaped[i] \notin {"<", ">", "\"", "'"}
       /\ \A i \in 1..Len(escaped) :
            escaped[i] = "&"
              => \E e \in Entities : StartsWith(SubSeq(escaped, i, Len(escaped)), e[1])
       /\ UnescapeXml(escaped) = str

C8_Witness ==
  /\ pc = "returned"
  /\ str = <<"&", "l", "t", ";">>
  /\ escaped = <<"&", "a", "m", "p", ";", "l", "t", ";">>
  /\ UnescapeXml(escaped) = str

====
